---- MODULE Spec2Model ----
(***************************************************************************)
(* Model of proto.py: the MPS7 binary transaction log parser               *)
(* (parse_logfile) and its two aggregate queries                           *)
(* (total_transaction_amount, num_autopay_changes).                        *)
(*                                                                         *)
(* A byte is an integer in 0..255 and the log is a sequence of bytes.      *)
(* Dollar amounts are IEEE-754 doubles; the model carries a double as an   *)
(* integer number of eighths of a dollar (every amount of the model is an  *)
(* exact dyadic value, so sums are exact) and a rounded total as an        *)
(* integer number of cents.  A Python optional (None or a value) is a      *)
(* sequence of length 0 or 1.                                              *)
(***************************************************************************)
EXTENDS Integers, Sequences, FiniteSets, TLC

VARIABLES
    input,            \* how the file on disk was produced (see Inputs)
    transaction_log,  \* the bytes read from the file (line 40)
    pc,               \* position in parse_logfile / the caller
    log_format,       \* header field, line 43
    version,          \* header field, line 43
    num_records,      \* header field, line 43
    i,                \* loop index, line 54
    record_start,     \* read offset, lines 51, 61, 70
    transactions,     \* the dataframe being built, lines 48, 73
    result,           \* what the caller of parse_logfile observes
    lastQuery         \* the last aggregate call and its return value

vars == <<input, transaction_log, pc, log_format, version, num_records, i,
          record_start, transactions, result, lastQuery>>

----------------------------------------------------------------------------
(* Program constants *)

HEADER_LENGTH == 9
BASE_RECORD_LENGTH == 13
DOLLAR_AMOUNT_LENGTH == 8
DEBIT == "Debit"
CREDIT == "Credit"
START == "StartAutopay"
END == "EndAutopay"

\* The magic string "MPS7" as bytes.
MAGIC == <<77, 80, 83, 55>>

\* RECORD_TYPES: record type enum byte -> record type.
RECORD_TYPES == [t \in 0..3 |->
    CASE t = 0 -> DEBIT [] t = 1 -> CREDIT [] t = 2 -> START [] t = 3 -> END]

AllTypes == {DEBIT, CREDIT, START, END}

----------------------------------------------------------------------------
(* Bounds of the model *)

MaxRecords == 2

----------------------------------------------------------------------------
(* struct.unpack and slicing *)

RECURSIVE Pow2(_)
Pow2(n) == IF n <= 0 THEN 1 ELSE 2 * Pow2(n - 1)

Min(a, b) == IF a <= b THEN a ELSE b

\* Python's transaction_log[a:b] (0-based, end clamped to the length).
Slice(log, a, b) == SubSeq(log, a + 1, Min(b, Len(log)))

\* struct.unpack raises struct.error unless the buffer has exactly the
\* format's size.
StructSizeOk(bytes, size) == Len(bytes) = size

\* Big-endian unsigned integer of a byte sequence.
RECURSIVE BigEndian(_)
BigEndian(bytes) ==
    IF bytes = <<>> THEN 0
    ELSE BigEndian(SubSeq(bytes, 1, Len(bytes) - 1)) * 256 + bytes[Len(bytes)]

\* Mutant: little-endian ('<I').
RECURSIVE LittleEndian(_)
LittleEndian(bytes) ==
    IF bytes = <<>> THEN 0
    ELSE bytes[1] + 256 * LittleEndian(Tail(bytes))

\* '>I': 4-byte big-endian uint32.
UnpackI(bytes) == BigEndian(bytes)

\* '>Q': 8-byte big-endian uint64.
UnpackQ(bytes) == BigEndian(bytes)

\* '>d': 8-byte big-endian IEEE-754 double, as a number of eighths.
\* sign: bit 63, exponent: bits 62..52, mantissa: bits 51..0.  Defined on
\* the doubles whose mantissa has at most 4 leading significant bits and
\* whose value is a whole number of eighths.
UnpackD(bytes) ==
    LET sign == bytes[1] \div 128
        e    == (bytes[1] % 128) * 16 + bytes[2] \div 16
        m4   == bytes[2] % 16
        mag  == IF e = 0 /\ m4 = 0 THEN 0
                ELSE IF e >= 1024 THEN (16 + m4) * Pow2(e - 1024)
                ELSE (16 + m4) \div Pow2(1024 - e)
    IN  IF sign = 1 THEN 0 - mag ELSE mag

----------------------------------------------------------------------------
(* parse_logfile, as functions of the log *)

\* Lines 43-46: the header unpack. <<>> stands for struct.error.
UnpackHeader(log) ==
    LET h == Slice(log, 0, HEADER_LENGTH)
    IN  IF ~StructSizeOk(h, HEADER_LENGTH) THEN <<>>
        ELSE << [log_format  |-> SubSeq(h, 1, 4),
                 version     |-> h[5],
                 num_records |-> UnpackI(SubSeq(h, 6, 9))] >>

\* Mutant: unknown enum values are coerced to END instead of raising.
RecordTypeCoerced(tag) ==
    IF tag \in DOMAIN RECORD_TYPES THEN <<RECORD_TYPES[tag]>> ELSE <<END>>

\* Line 63: RECORD_TYPES[record_type_enum]. <<>> stands for KeyError.
RecordTypeOf(tag) ==
    IF tag \in DOMAIN RECORD_TYPES THEN <<RECORD_TYPES[tag]>> ELSE <<>>

\* Mutant: only DEBIT carries an amount.
HasAmountDebitOnly(record_type) == record_type = DEBIT

\* Line 64: record_type in [DEBIT, CREDIT].
HasAmount(record_type) == record_type \in {DEBIT, CREDIT}

\* One row of the dataframe (line 73).
Row(record_type, timestamp, user_id, dollar_amount) ==
    [type |-> record_type, timestamp |-> timestamp, user_id |-> user_id,
     amount |-> dollar_amount]

NoRow == Row("", 0, 0, <<>>)

\* Lines 55-73: one iteration of the loop, reading at offset start.
\* status is "ok", "struct.error" or "KeyError"; start is the value of
\* record_start when the iteration ends or raises.
ParseRecord(log, start) ==
    LET stop1 == start + BASE_RECORD_LENGTH
        base  == Slice(log, start, stop1)
    IN  IF ~StructSizeOk(base, BASE_RECORD_LENGTH)
        THEN [status |-> "struct.error", start |-> start, row |-> NoRow]
        ELSE
          LET tag       == base[1]
              timestamp == UnpackI(SubSeq(base, 2, 5))
              user_id   == UnpackQ(SubSeq(base, 6, 13))
              rt        == RecordTypeOf(tag)
          IN  IF rt = <<>>
              THEN [status |-> "KeyError", start |-> stop1, row |-> NoRow]
              ELSE IF HasAmount(rt[1])
              THEN
                LET stop2 == stop1 + DOLLAR_AMOUNT_LENGTH
                    d     == Slice(log, stop1, stop2)
                IN  IF ~StructSizeOk(d, DOLLAR_AMOUNT_LENGTH)
                    THEN [status |-> "struct.error", start |-> stop1,
                          row |-> NoRow]
                    ELSE [status |-> "ok", start |-> stop2,
                          row |-> Row(rt[1], timestamp, user_id,
                                      <<UnpackD(d)>>)]
              ELSE [status |-> "ok", start |-> stop1,
                    row |-> Row(rt[1], timestamp, user_id, <<>>)]

\* Mutant: the loop also stops when the buffer is exhausted.
LoopContinuesWhileBytes(k, n, start, log) == k < n /\ start < Len(log)

\* Mutant: the loop reads until the buffer is exhausted.
LoopContinuesToEnd(k, n, start, log) == start < Len(log)

\* Mutant: off by one.
LoopContinuesOffByOne(k, n, start, log) == k <= n

\* Line 54: for i in range(num_records).
LoopContinues(k, n, start, log) == k < n

\* Mutant: a failure is swallowed and the rows read so far are returned.
RaisedPartial(error, rows) ==
    [status |-> "returned", value |-> rows, error |-> ""]

\* An exception leaving parse_logfile: the local dataframe is lost.
Raised(error, rows) == [status |-> "raised", value |-> <<>>, error |-> error]

\* Line 75: return transactions.
Returned(rows) == [status |-> "returned", value |-> rows, error |-> ""]

Pending == [status |-> "pending", value |-> <<>>, error |-> ""]


\* Lines 54-75: the loop from iteration k on, and the return.
RECURSIVE ParseLoop(_, _, _, _, _)
ParseLoop(log, k, n, start, rows) ==
    IF LoopContinues(k, n, start, log)
    THEN LET r == ParseRecord(log, start)
         IN  IF r.status = "ok"
             THEN ParseLoop(log, k + 1, n, r.start, Append(rows, r.row))
             ELSE Raised(r.status, rows)
    ELSE Returned(rows)

\* Lines 42-75: what parse_logfile gives its caller for a file's bytes.
ParseLogfile(log) ==
    LET h == UnpackHeader(log)
    IN  IF h = <<>> THEN Raised("struct.error", <<>>)
        ELSE ParseLoop(log, 0, h[1].num_records, HEADER_LENGTH, <<>>)

----------------------------------------------------------------------------
(* The aggregate queries *)

\* Line 82: "if user_id:" -- Python truthiness of the optional argument.
Truthy(user_id) == user_id # <<>> /\ user_id[1] # 0

\* Series.sum(): None entries are skipped, an empty series sums to 0.
RECURSIVE SumAmount(_)
SumAmount(rows) ==
    IF rows = <<>> THEN 0
    ELSE (IF Head(rows).amount = <<>> THEN 0 ELSE Head(rows).amount[1])
         + SumAmount(Tail(rows))

\* round(x, 2) of a number of eighths, in cents (ties go to the even cent:
\* an eighth times 100 is exactly representable, so the tie is exact).
Round2(eighths) ==
    LET mag  == IF eighths < 0 THEN 0 - eighths ELSE eighths
        x    == mag * 25
        lo   == x \div 2
        r    == IF x % 2 = 0 THEN lo
                ELSE IF lo % 2 = 0 THEN lo ELSE lo + 1
    IN  IF eighths < 0 THEN 0 - r ELSE r

\* Lines 81-87.
total_transaction_amount(rows, transaction_type, user_id) ==
    LET is_user(r) == r.user_id = user_id[1]
        is_transaction_type(r) == r.type = transaction_type
        kept == IF Truthy(user_id) THEN SelectSeq(rows, is_user) ELSE rows
    IN  Round2(SumAmount(SelectSeq(kept, is_transaction_type)))

\* Mutant: counts the autopay changes of either type.
num_autopay_changes_any(rows, change_type) ==
    LET is_change(r) == r.type \in {START, END}
    IN  Len(SelectSeq(rows, is_change))

\* Lines 92-94.
num_autopay_changes(rows, change_type) ==
    LET is_change_type(r) == r.type = change_type
    IN  Len(SelectSeq(rows, is_change_type))

----------------------------------------------------------------------------
(* The files the parser is run on.  A file is the encoding (per the        *)
(* format of lines 4-11 and the struct formats of lines 26-28) of a magic  *)
(* string, a version, a declared record count and a list of records, with  *)
(* its last `drop` bytes cut off.  The declared count may differ from the  *)
(* number of records written, and a record's enum byte may be undefined.   *)

\* struct.pack('>I' / '>Q'): n big-endian bytes of v.
RECURSIVE PackBE(_, _)
PackBE(v, n) == IF n = 0 THEN <<>> ELSE Append(PackBE(v \div 256, n - 1), v % 256)

RECURSIVE Log2(_)
Log2(v) == IF v <= 1 THEN 0 ELSE 1 + Log2(v \div 2)

\* struct.pack('>d') of a non-negative number of eighths below 2^27 with at
\* most 5 significant bits.
PackD(eighths) ==
    IF eighths = 0 THEN <<0, 0, 0, 0, 0, 0, 0, 0>>
    ELSE LET k  == Log2(eighths)
             e  == 1020 + k
             m4 == (eighths * 16) \div Pow2(k) - 16
         IN  <<e \div 16, (e % 16) * 16 + m4, 0, 0, 0, 0, 0, 0>>

InputRecords ==
    { [tag |-> t, timestamp |-> 258, user_id |-> u, amount |-> <<a>>] :
        t \in {0, 1}, u \in {0, 513}, a \in {1, 12} }
    \cup
    { [tag |-> t, timestamp |-> 258, user_id |-> u, amount |-> <<>>] :
        t \in {2, 3, 4}, u \in {0, 513} }

Inputs ==
    [ magic   : {MAGIC, <<77, 80, 83, 56>>},
      version : {1},
      count   : 0..MaxRecords,
      records : UNION { [1..k -> InputRecords] : k \in 0..MaxRecords },
      drop    : {0, 1, 8, 9, 13} ]

EncodeRecord(r) ==
    <<r.tag>> \o PackBE(r.timestamp, 4) \o PackBE(r.user_id, 8)
    \o (IF r.amount = <<>> THEN <<>> ELSE PackD(r.amount[1]))

RECURSIVE EncodeRecords(_)
EncodeRecords(rs) ==
    IF rs = <<>> THEN <<>> ELSE EncodeRecord(Head(rs)) \o EncodeRecords(Tail(rs))

EncodeLog(in) ==
    in.magic \o <<in.version>> \o PackBE(in.count, 4) \o EncodeRecords(in.records)

FileBytes(in) ==
    LET full == EncodeLog(in)
    IN  SubSeq(full, 1, Len(full) - Min(in.drop, Len(full)))

----------------------------------------------------------------------------
(* The state machine *)

NoQuery == [fn |-> "none", type |-> "", user_id |-> <<>>, value |-> 0]

Init ==
    /\ input \in Inputs
    /\ transaction_log = FileBytes(input)
    /\ pc = "header"
    /\ log_format = <<>>
    /\ version = 0
    /\ num_records = 0
    /\ i = 0
    /\ record_start = 0
    /\ transactions = <<>>
    /\ result = Pending
    /\ lastQuery = NoQuery

\* Lines 42-51.
ParseHeader ==
    /\ pc = "header"
    /\ LET h == UnpackHeader(transaction_log)
       IN  IF h = <<>>
           THEN /\ pc' = "raised"
                /\ result' = Raised("struct.error", transactions)
                /\ UNCHANGED <<log_format, version, num_records, i,
                               record_start, transactions>>
           ELSE /\ log_format' = h[1].log_format
                /\ version' = h[1].version
                /\ num_records' = h[1].num_records
                /\ transactions' = <<>>
                /\ record_start' = HEADER_LENGTH
                /\ i' = 0
                /\ pc' = "loop"
                /\ UNCHANGED result
    /\ UNCHANGED <<input, transaction_log, lastQuery>>

\* Lines 54-73: one iteration of the loop.
ParseNextRecord ==
    /\ pc = "loop"
    /\ LoopContinues(i, num_records, record_start, transaction_log)
    /\ LET r == ParseRecord(transaction_log, record_start)
       IN  /\ record_start' = r.start
           /\ IF r.status = "ok"
              THEN /\ transactions' = Append(transactions, r.row)
                   /\ i' = i + 1
                   /\ UNCHANGED <<pc, result>>
              ELSE /\ pc' = "raised"
                   /\ result' = Raised(r.status, transactions)
                   /\ UNCHANGED <<transactions, i>>
    /\ UNCHANGED <<input, transaction_log, log_format, version, num_records,
                   lastQuery>>

\* Line 75.
Return ==
    /\ pc = "loop"
    /\ ~LoopContinues(i, num_records, record_start, transaction_log)
    /\ pc' = "returned"
    /\ result' = Returned(transactions)
    /\ UNCHANGED <<input, transaction_log, log_format, version, num_records,
                   i, record_start, transactions, lastQuery>>

UserIdArgs == {<<>>, <<0>>, <<513>>}

\* A call total_transaction_amount(transactions, transaction_type[, user_id])
\* on the returned dataframe.
TotalTransactionAmount ==
    /\ pc = "returned"
    /\ \E t \in AllTypes, u \in UserIdArgs :
         lastQuery' = [fn |-> "total", type |-> t, user_id |-> u,
                       value |-> total_transaction_amount(result.value, t, u)]
    /\ UNCHANGED <<input, transaction_log, pc, log_format, version,
                   num_records, i, record_start, transactions, result>>

\* A call num_autopay_changes(transactions, change_type).
NumAutopayChanges ==
    /\ pc = "returned"
    /\ \E t \in AllTypes :
         lastQuery' = [fn |-> "count", type |-> t, user_id |-> <<>>,
                       value |-> num_autopay_changes(result.value, t)]
    /\ UNCHANGED <<input, transaction_log, pc, log_format, version,
                   num_records, i, record_start, transactions, result>>

Next ==
    \/ ParseHeader
    \/ ParseNextRecord
    \/ Return
    \/ TotalTransactionAmount
    \/ NumAutopayChanges

Spec == Init /\ [][Next]_vars

TypeOK ==
    /\ pc \in {"header", "loop", "returned", "raised"}
    /\ result.status \in {"pending", "returned", "raised"}
    /\ result.error \in {"", "struct.error", "KeyError"}
    /\ record_start \in 0..(Len(transaction_log) + BASE_RECORD_LENGTH)
    /\ i \in 0..num_records

----------------------------------------------------------------------------
(* Vocabulary of the properties, stated on the file as it was written      *)
(* (input) rather than on what the parser made of it.                      *)

Done == pc \in {"returned", "raised"}

\* The record kind of an enum byte, per the format (line 11).
KindOfTag(tag) ==
    CASE tag = 0 -> "Debit" [] tag = 1 -> "Credit"
      [] tag = 2 -> "StartAutopay" [] tag = 3 -> "EndAutopay"
      [] OTHER -> "Unknown"

\* The record a well-formed written record should decode to.
RowOfInput(r) == Row(KindOfTag(r.tag), r.timestamp, r.user_id, r.amount)

\* The records the declared count covers (all of them if it exceeds them).
Declared == SubSeq(input.records, 1, Min(input.count, Len(input.records)))

DeclaredWellFormed == \A k \in DOMAIN Declared : Declared[k].tag \in 0..3

\* Length of the header plus the declared records, as written.
PrefixLen == HEADER_LENGTH + Len(EncodeRecords(Declared))

\* The file holds its 9 header bytes and they start with the magic string.
ValidHeader ==
    /\ Len(transaction_log) >= HEADER_LENGTH
    /\ SubSeq(transaction_log, 1, 4) = MAGIC

\* The body ends before `count` complete records.
Truncated ==
    \/ input.count > Len(input.records)
    \/ Len(transaction_log) < PrefixLen

\* Bytes remain after `count` complete, well-formed records.
HasTrailing ==
    /\ input.count <= Len(input.records)
    /\ DeclaredWellFormed
    /\ Len(transaction_log) > PrefixLen

\* Width in bytes of a decoded row's record, per the format (lines 7-9).
RowLength(row) == IF row.type \in {"Debit", "Credit"} THEN 21 ELSE 13

RECURSIVE RowsLength(_)
RowsLength(rows) ==
    IF rows = <<>> THEN 0 ELSE RowLength(Head(rows)) + RowsLength(Tail(rows))

----------------------------------------------------------------------------
(* Claims *)

\* C1: for every buffer of at least 9 bytes whose first 4 bytes are not
\* MPS7, parse_logfile ends in a failure at the header: no record is
\* decoded and no record sequence is returned.
C1_InvalidMagicFails ==
    (/\ Len(transaction_log) >= HEADER_LENGTH
     /\ SubSeq(transaction_log, 1, 4) # MAGIC
     /\ pc # "header")
    => /\ pc = "raised"
       /\ result.status = "raised"
       /\ transactions = <<>>
       /\ record_start <= HEADER_LENGTH

\* C2: when the loop is positioned at a record (its 13 base bytes are in
\* the buffer) whose enum byte is not 0x00-0x03, that iteration fails with
\* the lookup error (KeyError, the code's UnknownRecordKind): no row is
\* added for the record and the loop does not move on to the next one.
C2_UnknownKindRaises ==
    [][ (/\ pc = "loop"
         /\ i < num_records
         /\ Len(transaction_log) >= record_start + BASE_RECORD_LENGTH
         /\ transaction_log[record_start + 1] \notin 0..3)
        => (/\ pc' = "raised"
            /\ result'.status = "raised"
            /\ result'.error = "KeyError"
            /\ result'.value = <<>>
            /\ transactions' = transactions
            /\ i' = i) ]_vars

C2_Witness ==
    /\ pc = "raised"
    /\ result.error = "KeyError"
    /\ Len(transactions) = 1
    /\ transaction_log[HEADER_LENGTH + RowsLength(transactions) + 1] = 4

\* C3: for every buffer with a valid header declaring N records whose body
\* ends before N complete records, parse_logfile never returns (it ends in
\* an exception); and no return ever carries fewer than N rows.
C3_TruncatedFails ==
    /\ (ValidHeader /\ Truncated)
         => (pc # "returned" /\ result.status # "returned")
    /\ result.status = "returned" => Len(result.value) = num_records

\* A Debit/Credit record cut inside its amount, after one good record.
C3_Witness ==
    /\ ValidHeader /\ Truncated /\ DeclaredWellFormed
    /\ input.count = 2
    /\ pc = "raised"
    /\ result.error = "struct.error"
    /\ Len(transactions) = 1
    /\ record_start = HEADER_LENGTH + RowsLength(transactions)
                        + BASE_RECORD_LENGTH
    /\ Len(transaction_log) > record_start

\* C4: decoding is all-or-nothing: the caller observes nothing until
\* parse_logfile ends, and then either a sequence of exactly record_count
\* rows or one error with none of the rows decoded before the failure.
C4_AllOrNothing ==
    /\ ~Done => result = Pending
    /\ pc = "returned"
         => /\ result.status = "returned"
            /\ result.error = ""
            /\ Len(result.value) = num_records
    /\ pc = "raised"
         => /\ result.status = "raised"
            /\ result.error \in {"struct.error", "KeyError"}
            /\ result.value = <<>>

\* The second record fails after the first was decoded.
C4_Witness ==
    /\ pc = "raised"
    /\ Len(transactions) = 1
    /\ result.status = "raised"
    /\ result.value = <<>>

\* C5: every decoded row has an amount iff its kind is Debit or Credit, its
\* kind is the one its enum byte names, and the read offset after the rows
\* decoded so far is 9 plus 21 bytes per Debit/Credit row and 13 bytes per
\* StartAutopay/EndAutopay row (each record starts where the previous ended).
C5_RecordLayout ==
    /\ \A k \in DOMAIN transactions :
         /\ transactions[k].amount # <<>>
              <=> transactions[k].type \in {"Debit", "Credit"}
         /\ KindOfTag(transaction_log[HEADER_LENGTH
                 + RowsLength(SubSeq(transactions, 1, k - 1)) + 1])
              = transactions[k].type
    /\ pc \in {"loop", "returned"}
         => record_start = HEADER_LENGTH + RowsLength(transactions)

C5_Witness ==
    /\ pc = "returned"
    /\ Len(transactions) = 2
    /\ transactions[1].type = "Credit" /\ transactions[1].amount = <<12>>
    /\ transactions[2].type = "EndAutopay" /\ transactions[2].amount = <<>>
    /\ record_start = 43

\* C6: if bytes remain after record_count well-formed records, parse_logfile
\* returns, never moves its read offset into the trailing bytes, and returns
\* what it returns for the buffer with the trailing bytes removed.
C6_TrailingIgnored ==
    HasTrailing
    => /\ record_start <= PrefixLen
       /\ pc # "raised"
       /\ pc = "returned"
            => /\ result.status = "returned"
               /\ result = ParseLogfile(SubSeq(transaction_log, 1, PrefixLen))

\* One record is returned and the trailing bytes begin with an undefined
\* enum byte.
C6_Witness ==
    /\ HasTrailing
    /\ pc = "returned"
    /\ Len(result.value) = 1
    /\ transaction_log[PrefixLen + 1] = 4

\* C7: a log written from a sequence of records of the four kinds, with
\* record_count equal to its length, decodes to exactly those records
\* (kind, timestamp, user_id, amount), in the order written.
RoundTripInput ==
    /\ input.magic = MAGIC
    /\ input.drop = 0
    /\ input.count = Len(input.records)
    /\ \A k \in DOMAIN input.records : input.records[k].tag \in 0..3

C7_RoundTrip ==
    RoundTripInput
    => /\ pc # "raised"
       /\ pc = "returned"
            => /\ Len(result.value) = input.count
               /\ \A k \in DOMAIN input.records :
                    result.value[k] = RowOfInput(input.records[k])

C7_Witness ==
    /\ RoundTripInput
    /\ pc = "returned"
    /\ Len(result.value) = 2
    /\ result.value[1] = Row("Debit", 258, 513, <<1>>)
    /\ result.value[2].type = "StartAutopay"

\* The sum the claim C8 describes, in cents: over the rows of the kind, and
\* of the user when a user_id is provided.
ExpectedTotal(rows, kind, user_id) ==
    LET wanted(r) == /\ r.type = kind
                     /\ (user_id = <<>> \/ r.user_id = user_id[1])
    IN  Round2(SumAmount(SelectSeq(rows, wanted)))

\* C8: total_transaction_amount with a user_id provided (0 included) sums
\* the amounts of exactly the rows of that kind and that user; with none
\* provided, of all the rows of that kind.
C8_TotalOfProvidedUser ==
    lastQuery.fn = "total"
    => lastQuery.value
         = ExpectedTotal(result.value, lastQuery.type, lastQuery.user_id)

\* C9: num_autopay_changes returns the number of rows of the given kind,
\* 0 if there are none, whatever the order of the rows, and the returned
\* dataframe is as parse_logfile left it.
C9_CountOfKind ==
    lastQuery.fn = "count"
    => /\ lastQuery.value
            = Cardinality({ k \in DOMAIN result.value :
                              result.value[k].type = lastQuery.type })
       /\ \A p \in Permutations(DOMAIN result.value) :
            num_autopay_changes(
                [k \in DOMAIN result.value |-> result.value[p[k]]],
                lastQuery.type) = lastQuery.value
       /\ result = Returned(transactions)

C9_Witness ==
    /\ lastQuery.fn = "count"
    /\ lastQuery.type = START
    /\ lastQuery.value = 1
    /\ Len(result.value) = 2
    /\ result.value[1].type = END

\* C10: with a valid header declaring 0 records, parse_logfile returns an
\* empty sequence with its read offset still at 9, and every aggregate
\* query on it returns 0.
EmptyLogInput == ValidHeader /\ input.count = 0

C10_EmptyLog ==
    EmptyLogInput
    => /\ pc # "raised"
       /\ pc # "header" => (record_start = HEADER_LENGTH /\ transactions = <<>>)
       /\ pc = "returned"
            => /\ result = Returned(<<>>)
               /\ \A t \in AllTypes :
                    /\ num_autopay_changes(result.value, t) = 0
                    /\ \A u \in UserIdArgs :
                         total_transaction_amount(result.value, t, u) = 0
       /\ lastQuery.fn # "none" => lastQuery.value = 0

\* The file has bytes after the header and a query has been answered.
C10_Witness ==
    /\ EmptyLogInput
    /\ Len(transaction_log) > HEADER_LENGTH
    /\ pc = "returned"
    /\ lastQuery.fn = "total"
    /\ lastQuery.value = 0

====
